---------------------------- MODULE Spec2Model ----------------------------
(***************************************************************************)
(* Model of Contents/Scripts/watched-sync.py: the watched-state sync       *)
(* between Plex (the playback service) and Shoko (the metadata service),   *)
(* and of Contents/Scripts/collection-posters.py: the posters of the Plex  *)
(* collections.  Each script is one sequential program; every remote call  *)
(* and every loop step is an action, and pc (ppc for the posters script)   *)
(* is the script's position.  Spec runs the first script, SpecPosters the  *)
(* second.                                                                 *)
(***************************************************************************)
EXTENDS Integers, Sequences, FiniteSets, TLC

(***************************************************************************)
(* Bounds of the model.                                                    *)
(***************************************************************************)
\* Plex timestamps range over 0..MaxTime; the script runs at instant MaxTime.
MaxTime == 2
\* Longest command-line argument enumerated character by character.
MaxArgLen == 3
\* Most files a collection's Uploads/posters folder starts with.
MaxPosters == 3
\* Most posters collection.posters() lists that are not uploaded files.
MaxAgentPosters == 1

None == "None"

(***************************************************************************)
(* Sequence helpers.                                                       *)
(***************************************************************************)
Range(s) == {s[i] : i \in DOMAIN s}

Front(s) == SubSeq(s, 1, Len(s) - 1)

EndsWith(s, suffix) ==
    /\ Len(suffix) <= Len(s)
    /\ SubSeq(s, Len(s) - Len(suffix) + 1, Len(s)) = suffix

(***************************************************************************)
(* Command line: arg_parse and the argparse parser (lines 43-54).          *)
(* An argument is a sequence of one-character strings.                     *)
(***************************************************************************)
ArgChars == {"0", "1", "9", "m", "W", "y", "-", "h", "\n", "x"}

\* str.lower() on the characters the model uses
LowerChar(c) ==
    CASE c = "W" -> "w"
      [] c = "I" -> "i"
      [] c = "M" -> "m"
      [] c = "P" -> "p"
      [] c = "O" -> "o"
      [] c = "R" -> "r"
      [] c = "T" -> "t"
      [] c = "Y" -> "y"
      [] c = "N" -> "n"
      [] c = "C" -> "c"
      [] c = "L" -> "l"
      [] c = "E" -> "e"
      [] c = "A" -> "a"
      [] c = "J" -> "j"
      [] c = "G" -> "g"
      [] OTHER   -> c

Lower(s) == [i \in DOMAIN s |-> LowerChar(s[i])]

ImportToken == <<"i", "m", "p", "o", "r", "t">>

DefaultRange == <<"9", "9", "9", "y">>

Units == {<<"m">>, <<"h">>, <<"d">>, <<"w">>, <<"m", "o", "n">>, <<"y">>}

DigitVal(c) ==
    CASE c = "0" -> 0 [] c = "1" -> 1 [] c = "2" -> 2 [] c = "3" -> 3
      [] c = "4" -> 4 [] c = "5" -> 5 [] c = "6" -> 6 [] c = "7" -> 7
      [] c = "8" -> 8 [] c = "9" -> 9 [] OTHER -> -1

\* (?:[1-9]|[1-9][0-9]|[1-9][0-9][0-9])
IsMagnitude(d) ==
    /\ Len(d) \in 1..3
    /\ DigitVal(d[1]) \in 1..9
    /\ \A i \in 2..Len(d) : DigitVal(d[i]) \in 0..9

\* the whole of b is magnitude followed by unit
IsRange(b) ==
    \E k \in 1..3 :
        /\ k < Len(b)
        /\ IsMagnitude(SubSeq(b, 1, k))
        /\ SubSeq(b, k + 1, Len(b)) \in Units

\* re.match('^...$', arg): Python's $ matches at the end of the string and
\* also just before a newline that ends the string.
RegexMatch(arg) ==
    \/ IsRange(arg)
    \/ /\ Len(arg) > 0
       /\ arg[Len(arg)] = "\n"
       /\ IsRange(Front(arg))

\* arg_parse accepts the argument (returns it lower-cased) or raises ArgumentTypeError
ArgAccepted(arg) == RegexMatch(Lower(arg)) \/ Lower(arg) = ImportToken

\* What the claim calls a valid argument: the import token, or magnitude 1-999 and a unit.
\* (The script lower-cases first, so the letters are case-insensitive.)
IsValidArgument(arg) == IsRange(Lower(arg)) \/ Lower(arg) = ImportToken

\* argparse takes a string that starts with "-" for an option, never for the
\* positional argument
IsOption(arg) == Len(arg) > 0 /\ arg[1] = "-"

\* "--" ends the options: no positional argument follows it
IsEndOfOptions(arg) == arg = <<"-", "-">>

\* the help option: -h, repeated or not, and the abbreviations of --help
IsHelp(arg) ==
    \/ /\ Len(arg) >= 2
       /\ arg[1] = "-"
       /\ \A i \in 2..Len(arg) : arg[i] = "h"
    \/ /\ Len(arg) \in 3..6
       /\ SubSeq(arg, 1, 2) = <<"-", "-">>
       /\ SubSeq(arg, 3, Len(arg)) = SubSeq(<<"h", "e", "l", "p">>, 1, Len(arg) - 2)

RECURSIVE MagnitudeOf(_)
MagnitudeOf(d) ==
    IF d = << >> THEN 0 ELSE 10 * MagnitudeOf(Front(d)) + DigitVal(d[Len(d)])

\* Length of a unit in minutes, the smallest unit of the relative date.
UnitLen(u) ==
    CASE u = <<"m">> -> 1
      [] u = <<"h">> -> 60
      [] u = <<"d">> -> 60 * 24
      [] u = <<"w">> -> 60 * 24 * 7
      [] u = <<"m", "o", "n">> -> 60 * 24 * 30
      [] u = <<"y">> -> 60 * 24 * 365

\* The duration in minutes a relative date stands for (a newline at its end ignored).
Duration(rd) ==
    LET b == IF Len(rd) > 0 /\ rd[Len(rd)] = "\n" THEN Front(rd) ELSE rd
        k == CHOOSE k \in 1..3 :
                 /\ k < Len(b)
                 /\ IsMagnitude(SubSeq(b, 1, k))
                 /\ SubSeq(b, k + 1, Len(b)) \in Units
    IN  MagnitudeOf(SubSeq(b, 1, k)) * UnitLen(SubSeq(b, k + 1, Len(b)))


(***************************************************************************)
(* The two catalogs.  Paths are sequences of components; "/" is            *)
(* os.path.sep.                                                            *)
(***************************************************************************)
Admin == "admin"

\* cfg.Plex['LibraryNames'] and the episodes of each library section, in the
\* order searchEpisodes returns them
LibraryNames == <<"L1", "L2">>

Records == {"R1", "R2", "R3"}

LibraryRecords(library) ==
    CASE library = "L1" -> <<"R2", "R1">>
      [] library = "L2" -> <<"R3">>

\* episode.iterParts(): the file locations of a playback record
Parts(r) ==
    CASE r = "R1" -> << <<"mnt", "/", "a">>, <<"mnt", "/", "b">> >>
      [] r = "R2" -> << <<"mnt", "/", "z">>, <<"mnt", "/", "c">> >>
      [] r = "R3" -> << <<"mnt", "/", "b2">> >>

\* Shoko's file index, in the order its queries list the files.  SeriesIDs is
\* the list of series groupings of a file, each the list of its EpisodeIDs.
ShokoFiles == <<
    [path |-> <<"srv", "/", "a">>,  SeriesIDs |-> << <<1, 2>>, <<3>> >>],
    [path |-> <<"srv", "/", "b">>,  SeriesIDs |-> << <<4>> >>],
    [path |-> <<"srv", "/", "b2">>, SeriesIDs |-> << <<4>> >>],
    [path |-> <<"srv", "/", "c">>,  SeriesIDs |-> << >>] >>

Files == DOMAIN ShokoFiles

Episodes == {1, 2, 3, 4}

TriStates == {"null", "true", "false"}

\* every episode ID of every series grouping of file f
EpisodesOf(f) ==
    UNION {Range(ShokoFiles[f].SeriesIDs[g]) : g \in DOMAIN ShokoFiles[f].SeriesIDs}

\* the files of an episode, in index order (the episode's Files list)
FilesOf(e) == {f \in Files : e \in EpisodesOf(f)}

Min(S) == CHOOSE x \in S : \A y \in S : x <= y

Max(S) == CHOOSE x \in S : \A y \in S : x >= y

\* os.path.basename: what follows the last separator
Basename(p) ==
    LET seps == {i \in DOMAIN p : p[i] = "/"}
    IN  IF seps = {} THEN p ELSE SubSeq(p, Max(seps) + 1, Len(p))

\* line 135: os.path.sep + os.path.basename(episode_path.file)
MatchKey(p) == <<"/">> \o Basename(p)

\* the sequence of the elements of the set of integers S, ascending
RECURSIVE Ascending(_)
Ascending(S) ==
    IF S = {} THEN << >> ELSE <<Min(S)>> \o Ascending(S \ {Min(S)})

(***************************************************************************)
(* State.                                                                  *)
(***************************************************************************)
VARIABLES
    argv,               \* sys.argv[1:]: << >> or one argument
    SyncAdmin,          \* cfg.Plex['SyncAdmin']
    ExtraUsers,         \* cfg.Plex['ExtraUsers'], a list of usernames
    pc,                 \* position of the script
    run,                \* which invocation of the script this is
    relative_date,      \* line 53-54
    shoko_import,       \* line 53-54
    accounts,           \* line 67-72
    watched_episodes,   \* line 91-94
    import_confirmation,\* line 102
    ai,                 \* index of `account` in accounts (line 96)
    li,                 \* index of `library` in LibraryNames (line 115)
    episodes,           \* the list searchEpisodes returned (lines 125, 133)
    ei,                 \* index of `episode` in episodes
    pi,                 \* index of `episode_path` in episode.iterParts()
    path_ends_with,     \* line 136: the files the query returned
    ids,                \* the EpisodeIDs of the loop of line 140 still to post
    plexWatched,        \* Plex: per user and record, the watched flag
    lastViewedAt,       \* Plex: per user and record, the last-viewed instant
    fileWatched,        \* Shoko: per file, the Watched tri-state
    epWatched,          \* Shoko: per episode, the watched flag
    resolvable,         \* Plex: the extra users whose resolution fails at no step
    called,             \* a call to Plex or Shoko was made in this run
    crashAt,            \* the call whose exception ended the script, or None
    answeredYes,        \* accounts that answered yes in this run
    answeredNo,         \* accounts that answered no in this run
    marked,             \* <<user, record>>: markPlayed succeeded in this run
    processed,          \* <<user, record>>: the import loop finished the record
    postRuns,           \* the runs that issued a setEpisodeWatched call
    failRuns,           \* the runs in which a setEpisodeWatched call failed
    skipRuns,           \* the runs that left out an identity or a library
    reports,            \* "Failed" lines printed for the last file location
    outcome,            \* how the last file location of export mode went
    libLog,             \* <<account index, library index, what happened>>
    marks,              \* markPlayed calls made for the current episode
    lastVisit,          \* <<ai, li, ei, pi>> of the last file location handled
    posterArgv,         \* collection-posters.py: sys.argv[1:]
    PostersFolder,      \* cfg.Plex['PostersFolder']: "" when not configured
    folderFiles,        \* os.listdir(PostersFolder)
    agentPosters,       \* per collection, the posters listed that are not uploads
    ppc,                \* position of collection-posters.py
    clean_posters,      \* line 46
    pl,                 \* index of `library` in LibraryNames (line 66)
    collections,        \* anime.collections() (lines 77, 110)
    ci,                 \* index of `collection` in collections
    user_posters,       \* lines 100-103
    fallback,           \* lines 112, 122
    removing,           \* line 81: the files still to remove
    posterFiles,        \* per collection, the files of Uploads/posters, by ctime
    applied,            \* per collection, the kinds of poster uploaded in this run
    pfailed             \* a call of collection-posters.py failed in this run

config == <<argv, SyncAdmin, ExtraUsers>>

locals == <<relative_date, shoko_import, accounts, watched_episodes,
            import_confirmation, ai, li, episodes, ei, pi, path_ends_with, ids>>

plex == <<plexWatched, lastViewedAt>>

shoko == <<fileWatched, epWatched>>

history == <<resolvable, called, crashAt, answeredYes, answeredNo,
             marked, processed, postRuns, failRuns, skipRuns, reports,
             outcome>>

\* what this run did with each account and library, and with the episode at hand
trace == <<libLog, marks, lastVisit>>

\* the state of watched-sync.py and of the services it talks to
syncVars == <<config, pc, run, locals, plex, shoko, history, trace>>

posterConfig == <<posterArgv, PostersFolder, folderFiles, agentPosters>>

posterLocals == <<clean_posters, pl, collections, ci, user_posters, fallback,
                  removing>>

\* the state of collection-posters.py and of the folders it works on
posters == <<posterConfig, ppc, posterLocals, posterFiles, applied, pfailed>>

vars == <<syncVars, posters>>

ExtraUserNames == <<"u1", "u2">>

Users == {Admin} \cup Range(ExtraUserNames)

\* the instant at which the script runs
Now == MaxTime

(***************************************************************************)
(* The two services, as the script's calls see them.                       *)
(***************************************************************************)
\* GET /api/v3/File/PathEndsWith?path=key: the files whose path ends with key
PathEndsWith(key) ==
    LET hits == {f \in Files : EndsWith(ShokoFiles[f].path, key)}
        order == Ascending(hits)
    IN  [i \in DOMAIN order |->
            [file |-> order[i],
             Watched |-> fileWatched[order[i]],
             SeriesIDs |-> ShokoFiles[order[i]].SeriesIDs]]

\* GET /api/v3/Episode?includeWatched=only&includeFiles=true: the watched
\* episodes, each with the list of its files
WatchedEpisodeList ==
    LET eps == Ascending({e \in Episodes : epWatched[e] /\ FilesOf(e) # {}})
    IN  [i \in DOMAIN eps |-> [ID |-> eps[i], Files |-> Ascending(FilesOf(eps[i]))]]

\* the basename of the last file of each
LastFileNames(list) ==
    [i \in DOMAIN list |->
        Basename(ShokoFiles[list[i].Files[Len(list[i].Files)]].path)]

\* line 93-94: the basename of the first location of the first file of each
FirstFileNames(list) ==
    [i \in DOMAIN list |-> Basename(ShokoFiles[list[i].Files[1]].path)]

\* POST /api/v3/Episode/{id}/Watched/true: Shoko marks the episode and the
\* files of the episode as watched
EpWatchedAfterPost(e) == [epWatched EXCEPT ![e] = TRUE]

FileWatchedAfterPost(e) ==
    [f \in Files |-> IF f \in FilesOf(e) THEN "true" ELSE fileWatched[f]]

\* the records of a sequence that satisfy a per-record test given as a set
RECURSIVE Filter(_, _)
Filter(s, keep) ==
    IF s = << >> THEN << >>
    ELSE IF Head(s) \in keep THEN <<Head(s)>> \o Filter(Tail(s), keep)
    ELSE Filter(Tail(s), keep)

\* section.searchEpisodes(unwatched=True)
SearchUnwatched(user, library) ==
    Filter(LibraryRecords(library), {r \in Records : ~plexWatched[user][r]})

\* a filter that also takes the records last viewed at that very instant
ViewedAtOrAfter(user, rd) ==
    {r \in Records : lastViewedAt[user][r] >= Now - Duration(rd)}

\* the filter 'lastViewedAt>>': the records last viewed after the instant
\* that lies the relative date before now
ViewedAfter(user, rd) ==
    {r \in Records : lastViewedAt[user][r] > Now - Duration(rd)}

\* section.searchEpisodes(unwatched=False, filters={'lastViewedAt>>': relative_date})
SearchWatched(user, library, rd) ==
    Filter(LibraryRecords(library),
           {r \in Records : plexWatched[user][r]} \cap ViewedAfter(user, rd))

(***************************************************************************)
(* Initial states: the script is about to start.  The configuration and    *)
(* the contents of the two services are drawn from four families, each     *)
(* varying one part of the input widely and the rest narrowly.             *)
(***************************************************************************)
InitLocals ==
    /\ pc = "parse"
    /\ run = 1
    /\ relative_date = << >>
    /\ shoko_import = FALSE
    /\ accounts = << >>
    /\ watched_episodes = << >>
    /\ import_confirmation = None
    /\ ai = 1
    /\ li = 1
    /\ episodes = << >>
    /\ ei = 1
    /\ pi = 1
    /\ path_ends_with = << >>
    /\ ids = << >>

InitHistory ==
    /\ resolvable = {}
    /\ called = FALSE
    /\ crashAt = None
    /\ answeredYes = {}
    /\ answeredNo = {}
    /\ marked = {}
    /\ processed = {}
    /\ postRuns = {}
    /\ failRuns = {}
    /\ skipRuns = {}
    /\ reports = 0
    /\ outcome = None
    /\ libLog = {}
    /\ marks = 0
    /\ lastVisit = <<0, 0, 0, 0>>

\* every argument of at most MaxArgLen characters, and some longer ones
ArgStrings ==
    UNION {[1..n -> ArgChars] : n \in 0..MaxArgLen}
    \cup {ImportToken,
          <<"I", "M", "P", "O", "R", "T">>,
          ImportToken \o <<"\n">>,
          <<"1", "m", "o", "n">>,
          <<"9", "9", "9", "y">>,
          <<"1", "0", "0", "0", "y">>}

OneMinute == <<"1", "m">>

\* Shoko states in which an episode is watched exactly if one of its files is
EpisodesFromFiles(fw) ==
    [e \in Episodes |-> \E f \in FilesOf(e) : fw[f] = "true"]

FilesFromEpisodes(ew) ==
    [f \in Files |-> IF \E e \in EpisodesOf(f) : ew[e] THEN "true" ELSE "null"]

\* a user who watched the records of S, all at instant t
Viewed(S, t) == [r \in Records |-> IF r \in S THEN t ELSE 0]

Flags(S) == [r \in Records |-> r \in S]

DefaultServices ==
    /\ plexWatched = [u \in Users |-> Flags({"R1", "R2"})]
    /\ lastViewedAt = [u \in Users |-> Viewed({"R1", "R2"}, Now)]
    /\ epWatched = [e \in Episodes |-> e = 4]
    /\ fileWatched = FilesFromEpisodes([e \in Episodes |-> e = 4])

\* the command line varies
InitArgs ==
    /\ argv \in {<<a>> : a \in ArgStrings}
    /\ SyncAdmin = TRUE
    /\ ExtraUsers = << >>
    /\ DefaultServices

\* the configured identities vary
InitIdentities ==
    /\ argv \in {<< >>, <<ImportToken>>}
    /\ SyncAdmin \in BOOLEAN
    /\ ExtraUsers \in {SubSeq(ExtraUserNames, 1, n) : n \in 0..Len(ExtraUserNames)}
    /\ DefaultServices

\* export mode: the tri-states of two files vary, and the administrator's
\* records: whether and when R1 was viewed, whether R3 was
InitExport ==
    /\ argv \in {<< >>, <<OneMinute>>}
    /\ SyncAdmin = TRUE
    /\ ExtraUsers = <<"u1">>
    /\ \E fw \in [Files -> TriStates] :
        /\ fw[3] = "null"
        /\ fw[4] = "null"
        /\ fileWatched = fw
        /\ epWatched = EpisodesFromFiles(fw)
    /\ \E wa \in SUBSET Records, wu \in {{}, Records}, t \in 0..MaxTime :
        /\ "R2" \in wa
        /\ "R1" \notin wa => t = 0
        /\ plexWatched = [u \in Users |-> IF u = Admin THEN Flags(wa) ELSE Flags(wu)]
        /\ lastViewedAt = [u \in Users |->
                IF u = Admin
                THEN [r \in Records |-> IF r = "R1" THEN t ELSE Viewed(wa, Now)[r]]
                ELSE Viewed(wu, Now)]

\* import mode: the watched episodes and the unwatched records vary
InitImport ==
    /\ argv = <<ImportToken>>
    /\ SyncAdmin = TRUE
    /\ ExtraUsers = <<"u1">>
    /\ \E ew \in [Episodes -> BOOLEAN] :
        /\ ~ew[2]
        /\ ~ew[3]
        /\ epWatched = ew
        /\ fileWatched = FilesFromEpisodes(ew)
    /\ \E wa \in SUBSET Records, wu \in {{}, {"R2", "R3"}} :
        /\ plexWatched = [u \in Users |-> IF u = Admin THEN Flags(wa) ELSE Flags(wu)]
        /\ lastViewedAt = [u \in Users |-> IF u = Admin THEN Viewed(wa, Now) ELSE Viewed(wu, Now)]

(***************************************************************************)
(* collection-posters.py: the collections, their titles and the files.     *)
(* A file name and a title are sequences of one-character strings; a file  *)
(* of an Uploads/posters folder is the integer of its creation time.       *)
(***************************************************************************)
Collections == {"A", "B", "C"}

\* anime.collections() of each library
LibraryCollections(library) ==
    CASE library = "L1" -> <<"A", "B">>
      [] library = "L2" -> <<"C">>

\* collection.title
Title(c) ==
    CASE c = "A" -> <<"a">>
      [] c = "B" -> <<"b", ":">>
      [] c = "C" -> <<"c">>

\* line 32
file_formats ==
    {<<".", "b", "m", "p">>, <<".", "g", "i", "f">>, <<".", "j", "p", "e">>,
     <<".", "j", "p", "e", "g">>, <<".", "j", "p", "g">>, <<".", "p", "n", "g">>,
     <<".", "t", "b", "n">>, <<".", "t", "i", "f">>, <<".", "t", "i", "f", "f">>,
     <<".", "w", "e", "b", "p">>}

\* line 35: the characters the regular expressions of file_formatting match
file_formatting == {"\\", "/", ":", "*", "?", "\"", "<", ">", "|"}

\* lines 116-118: the title with every such character removed
Sanitize(title) == Filter(title, Range(title) \ file_formatting)

\* os.path.splitext(name)[0]: the name up to its last dot, when something
\* other than dots comes before that dot
SplitExt(name) ==
    LET dots == {i \in DOMAIN name : name[i] = "."}
    IN  IF dots # {} /\ (\E j \in 1..(Max(dots) - 1) : name[j] # ".")
        THEN SubSeq(name, 1, Max(dots) - 1)
        ELSE name

\* line 103: file.lower().endswith(file_formats)
IsImage(name) == \E f \in file_formats : EndsWith(Lower(name), f)

\* line 119: the file is a poster for the collection
PosterMatches(name, c) == SplitExt(name) = Sanitize(Title(c))

\* the files the posters folder may hold
FolderNames ==
    {<<"a", ".", "j", "p", "g">>, <<"a", ".", "P", "N", "G">>,
     <<"b", ".", "j", "p", "g">>, <<"b", ":", ".", "j", "p", "g">>,
     <<"a", ".", "t", "x", "t">>, <<"c">>}

\* os.listdir of the posters folder: no file, one, or two in either order
FolderListings ==
    {<< >>} \cup {<<f>> : f \in FolderNames}
            \cup {p \in FolderNames \X FolderNames : p[1] # p[2]}

CleanToken == <<"c", "l", "e", "a", "n">>

\* len(collection.posters()): the uploaded files and the other posters
PosterCount(c) == Cardinality(posterFiles[c]) + agentPosters[c]

\* the creation time of the newest file, 0 when there is none
Newest(files) == IF files = {} THEN 0 ELSE Max(files)

\* collection.uploadPoster, k times: each upload adds a file, the newest
AfterUploads(files, k) == files \cup {Newest(files) + i : i \in 1..k}

\* collection-posters.py is about to start
InitPosterLocals ==
    /\ ppc = "parse"
    /\ clean_posters = FALSE
    /\ pl = 1
    /\ collections = << >>
    /\ ci = 1
    /\ user_posters = << >>
    /\ fallback = TRUE
    /\ removing = << >>
    /\ applied = [c \in Collections |-> {}]
    /\ pfailed = FALSE

\* collection-posters.py is not run
PostersIdle ==
    /\ InitPosterLocals
    /\ posterArgv = << >>
    /\ PostersFolder = ""
    /\ folderFiles = << >>
    /\ agentPosters = [c \in Collections |-> 1]
    /\ posterFiles = [c \in Collections |-> {}]

\* watched-sync.py is not run
SyncIdle ==
    /\ InitLocals
    /\ InitHistory
    /\ argv = << >>
    /\ SyncAdmin = TRUE
    /\ ExtraUsers = << >>
    /\ DefaultServices

\* clean mode: the upload folders and the poster lists vary
InitClean ==
    /\ posterArgv \in {<<CleanToken>>, <<<<"C", "L", "E", "A", "N">>>>}
    /\ PostersFolder = ""
    /\ folderFiles = << >>
    /\ agentPosters \in [Collections -> 0..MaxAgentPosters]
    /\ posterFiles \in [Collections -> {1..n : n \in 0..MaxPosters}]

\* apply mode: the command line and the posters folder vary
InitApply ==
    /\ posterArgv \in {<< >>, <<<<"x">>>>, <<<<"-", "h">>>>}
    /\ \/ PostersFolder = "" /\ folderFiles = << >>
       \/ PostersFolder = "posters" /\ folderFiles \in FolderListings
    /\ agentPosters = [c \in Collections |-> 1]
    /\ posterFiles = [c \in Collections |-> {1}]

InitPosters ==
    /\ SyncIdle
    /\ InitPosterLocals
    /\ (InitClean \/ InitApply)

Init ==
    /\ InitLocals
    /\ InitHistory
    /\ (InitArgs \/ InitIdentities \/ InitExport \/ InitImport)
    /\ PostersIdle

(***************************************************************************)
(* The script, step by step.                                               *)
(***************************************************************************)
Account == accounts[ai]

Library == LibraryNames[li]

Episode == episodes[ei]

EpisodePath == Parts(Episode)[pi]

\* lines 51-54: parser.parse_args() and the import switch
ParseArgs ==
    /\ pc = "parse"
    /\ IF argv = << >> \/ IsEndOfOptions(argv[1])
       THEN /\ relative_date' = DefaultRange
            /\ shoko_import' = FALSE
            /\ pc' = "plexAuth"
       ELSE LET arg == argv[1] IN
            IF IsOption(arg)
            THEN /\ pc' = IF IsHelp(arg) THEN "exit0" ELSE "exit2"
                 /\ UNCHANGED <<relative_date, shoko_import>>
            ELSE IF ~ArgAccepted(arg)
            THEN /\ pc' = "exit2"
                 /\ UNCHANGED <<relative_date, shoko_import>>
            ELSE /\ relative_date' =
                        IF Lower(arg) = ImportToken THEN DefaultRange ELSE Lower(arg)
                 /\ shoko_import' = (Lower(arg) = ImportToken)
                 /\ pc' = "plexAuth"
    /\ UNCHANGED <<posters, config, trace, run, accounts, watched_episodes, import_confirmation,
                   ai, li, episodes, ei, pi, path_ends_with, ids, plex, shoko,
                   history>>

\* lines 57-64: MyPlexAccount(...)
PlexAuth ==
    /\ pc = "plexAuth"
    /\ called' = TRUE
    /\ \E ok \in BOOLEAN : pc' = IF ok THEN "resolve" ELSE "exit1"
    /\ UNCHANGED <<posters, config, trace, run, locals, plex, shoko, resolvable, crashAt,
                   answeredYes, answeredNo, marked, processed, postRuns,
                   failRuns, skipRuns, reports, outcome>>

\* lines 69-74: the extra users that reach accounts when the resolution of
\* each user u fails at step fault[u] ("ok": at none).  The roster lookups
\* all come first, then the account switches, then the sessions, one try
\* around the three loops.
ResolvedExtraUsers(users, fault) ==
    IF \E i \in DOMAIN users : fault[users[i]] \in {"user", "switch"}
    THEN << >>
    ELSE LET bad == {i \in DOMAIN users : fault[users[i]] = "session"}
         IN  IF bad = {} THEN users ELSE SubSeq(users, 1, Min(bad) - 1)

\* lines 66-74
ResolveIdentities ==
    /\ pc = "resolve"
    /\ \E fault \in [Range(ExtraUsers) -> {"ok", "user", "switch", "session"}] :
        /\ resolvable' = {u \in Range(ExtraUsers) : fault[u] = "ok"}
        /\ accounts' = (IF SyncAdmin THEN <<Admin>> ELSE << >>)
                           \o ResolvedExtraUsers(ExtraUsers, fault)
        /\ skipRuns' = IF \A u \in Range(ExtraUsers) : fault[u] = "ok"
                       THEN skipRuns ELSE skipRuns \cup {run}
    /\ pc' = "shokoAuth"
    /\ UNCHANGED <<posters, config, trace, run, relative_date, shoko_import, watched_episodes,
                   import_confirmation, ai, li, episodes, ei, pi, path_ends_with,
                   ids, plex, shoko, called, crashAt, answeredYes, answeredNo,
                   marked, processed, postRuns, failRuns, reports, outcome>>

\* lines 77-84: POST /api/auth
ShokoAuth ==
    /\ pc = "shokoAuth"
    /\ \E answer \in {"ok", "unreachable", "invalid"} :
        pc' = IF answer # "ok" THEN "exit1"
              ELSE IF shoko_import THEN "precompute" ELSE "account"
    /\ UNCHANGED <<posters, config, trace, run, locals, plex, shoko, history>>

\* lines 89-94: the list of the watched episodes' filenames
Precompute ==
    /\ pc = "precompute"
    /\ \E ok \in BOOLEAN :
        IF ok
        THEN /\ watched_episodes' = FirstFileNames(WatchedEpisodeList)
             /\ pc' = "account"
             /\ UNCHANGED crashAt
        ELSE /\ pc' = "crashed"
             /\ crashAt' = "precompute"
             /\ UNCHANGED watched_episodes
    /\ UNCHANGED <<posters, config, trace, run, relative_date, shoko_import, accounts,
                   import_confirmation, ai, li, episodes, ei, pi, path_ends_with,
                   ids, plex, shoko, resolvable, called, answeredYes, answeredNo,
                   marked, processed, postRuns, failRuns, skipRuns, reports, outcome>>

\* line 96: the next account, or line 145 when there is none
NextAccount ==
    /\ pc = "account"
    /\ pc' = IF ai > Len(accounts) THEN "done"
             ELSE IF shoko_import THEN "confirm" ELSE "connect"
    /\ UNCHANGED <<posters, config, trace, run, locals, plex, shoko, history>>

\* a gate that proceeds on every answer but "n"
GateDecisionDefaultYes(answer) ==
    IF Lower(<<answer>>) = <<"n">> THEN "skip" ELSE "proceed"

\* what the loop of lines 100-106 does with one line of input
GateDecision(answer) ==
    IF Lower(<<answer>>) = <<"y">> THEN "proceed"
    ELSE IF Lower(<<answer>>) = <<"n">> THEN "skip"
    ELSE "again"

\* lines 98-106: one prompt and its answer
Confirm ==
    /\ pc = "confirm"
    /\ \E answer \in {"y", "Y", "n", "N", "x"} :
        /\ import_confirmation' = answer
        /\ answeredYes' = IF answer \in {"y", "Y"}
                          THEN answeredYes \cup {Account} ELSE answeredYes
        /\ answeredNo' = IF answer \in {"n", "N"}
                         THEN answeredNo \cup {Account} ELSE answeredNo
        /\ CASE GateDecision(answer) = "proceed" ->
                    /\ pc' = "connect"
                    /\ UNCHANGED ai
             [] GateDecision(answer) = "skip" ->
                    /\ pc' = "account"
                    /\ ai' = ai + 1
             [] OTHER ->
                    UNCHANGED <<pc, ai>>
    /\ UNCHANGED <<posters, config, trace, run, relative_date, shoko_import, accounts,
                   watched_episodes, li, episodes, ei, pi, path_ends_with, ids,
                   plex, shoko, resolvable, called, crashAt, marked, processed,
                   postRuns, failRuns, skipRuns, reports, outcome>>

\* a connection failure that goes on with the next account
ConnectSkipping ==
    /\ pc = "connect"
    /\ \E ok \in BOOLEAN :
        IF ok THEN pc' = "library" /\ li' = 1 /\ UNCHANGED <<ai, libLog>>
        ELSE /\ pc' = "account"
             /\ ai' = ai + 1
             /\ libLog' = libLog \cup {<<ai, 0, "refused">>}
             /\ UNCHANGED li
    /\ UNCHANGED <<posters, config, marks, lastVisit, run, relative_date, shoko_import,
                   accounts, watched_episodes, import_confirmation, episodes, ei,
                   pi, path_ends_with, ids, plex, shoko, history>>

\* lines 108-112: account.resource(ServerName).connect()
Connect ==
    /\ pc = "connect"
    /\ \E ok \in BOOLEAN :
        IF ok THEN pc' = "library" /\ li' = 1 /\ UNCHANGED libLog
        ELSE /\ pc' = "exit1"
             /\ libLog' = libLog \cup {<<ai, 0, "refused">>}
             /\ UNCHANGED li
    /\ UNCHANGED <<posters, config, marks, lastVisit, run, relative_date, shoko_import, accounts,
                   watched_episodes, import_confirmation, ai, episodes, ei, pi,
                   path_ends_with, ids, plex, shoko, history>>

\* a missing library section that ends the loop over the libraries
SectionAbandoning ==
    /\ pc = "library"
    /\ li <= Len(LibraryNames)
    /\ \E ok \in BOOLEAN :
        IF ok THEN pc' = "search" /\ UNCHANGED <<li, skipRuns, libLog>>
        ELSE /\ li' = Len(LibraryNames) + 1
             /\ skipRuns' = skipRuns \cup {run}
             /\ libLog' = libLog \cup {<<ai, li, "missing">>}
             /\ UNCHANGED pc
    /\ UNCHANGED <<posters, config, marks, lastVisit, run, relative_date, shoko_import,
                   accounts, watched_episodes, import_confirmation, ai, episodes,
                   ei, pi, path_ends_with, ids, plex, shoko, resolvable, called,
                   crashAt, answeredYes, answeredNo, marked, processed, postRuns,
                   failRuns, reports, outcome>>

\* lines 115-121: plex.library.section(library)
Section ==
    /\ pc = "library"
    /\ li <= Len(LibraryNames)
    /\ \E ok \in BOOLEAN :
        IF ok THEN pc' = "search" /\ UNCHANGED <<li, skipRuns, libLog>>
        ELSE /\ li' = li + 1
             /\ skipRuns' = skipRuns \cup {run}
             /\ libLog' = libLog \cup {<<ai, li, "missing">>}
             /\ UNCHANGED pc
    /\ UNCHANGED <<posters, config, marks, lastVisit, run, relative_date, shoko_import, accounts,
                   watched_episodes, import_confirmation, ai, episodes, ei, pi,
                   path_ends_with, ids, plex, shoko, resolvable, called, crashAt,
                   answeredYes, answeredNo, marked, processed, postRuns, failRuns,
                   reports, outcome>>

\* line 115: the libraries are exhausted, on to the next account
LibrariesDone ==
    /\ pc = "library"
    /\ li > Len(LibraryNames)
    /\ ai' = ai + 1
    /\ pc' = "account"
    /\ UNCHANGED <<posters, config, trace, run, relative_date, shoko_import, accounts,
                   watched_episodes, import_confirmation, li, episodes, ei, pi,
                   path_ends_with, ids, plex, shoko, history>>

\* lines 125 and 133: section.searchEpisodes(...)
Search ==
    /\ pc = "search"
    /\ \E ok \in BOOLEAN :
        IF ok
        THEN /\ episodes' = IF shoko_import
                            THEN SearchUnwatched(Account, Library)
                            ELSE SearchWatched(Account, Library, relative_date)
             /\ ei' = 1
             /\ pi' = 1
             /\ pc' = "part"
             /\ libLog' = libLog \cup {<<ai, li, "searched">>}
             /\ UNCHANGED crashAt
        ELSE /\ pc' = "crashed"
             /\ crashAt' = "search"
             /\ UNCHANGED <<episodes, ei, pi, libLog>>
    /\ UNCHANGED <<posters, config, marks, lastVisit, run, relative_date, shoko_import, accounts,
                   watched_episodes, import_confirmation, ai, li, path_ends_with,
                   ids, plex, shoko, resolvable, called, answeredYes, answeredNo,
                   marked, processed, postRuns, failRuns, skipRuns, reports, outcome>>

\* a loop over the libraries that searches the same library again
EpisodesDoneSameLibrary ==
    /\ pc = "part"
    /\ ei > Len(episodes)
    /\ pc' = "search"
    /\ UNCHANGED <<posters, config, trace, run, locals, plex, shoko, history>>

\* line 144: the episodes of the library are exhausted
EpisodesDone ==
    /\ pc = "part"
    /\ ei > Len(episodes)
    /\ li' = li + 1
    /\ pc' = "library"
    /\ UNCHANGED <<posters, config, trace, run, relative_date, shoko_import, accounts,
                   watched_episodes, import_confirmation, ai, episodes, ei, pi,
                   path_ends_with, ids, plex, shoko, history>>

\* lines 126 and 134: the parts of the episode are exhausted
PartsDone ==
    /\ pc = "part"
    /\ ei <= Len(episodes)
    /\ pi > Len(Parts(Episode))
    /\ ei' = ei + 1
    /\ pi' = 1
    /\ processed' = IF shoko_import THEN processed \cup {<<Account, Episode>>}
                    ELSE processed
    /\ marks' = 0
    /\ UNCHANGED <<posters, config, libLog, lastVisit, pc, run, relative_date, shoko_import, accounts,
                   watched_episodes, import_confirmation, ai, li, episodes,
                   path_ends_with, ids, plex, shoko, resolvable, called, crashAt,
                   answeredYes, answeredNo, marked, postRuns, failRuns, skipRuns, reports, outcome>>

\* a markPlayed that toggles the flag
PlexWatchedAfterToggle(user, r) ==
    [plexWatched EXCEPT ![user][r] = ~plexWatched[user][r]]

\* line 129: episode.markPlayed()
PlexWatchedAfterMark(user, r) == [plexWatched EXCEPT ![user][r] = TRUE]

\* a loop over the parts that stops marking after its first markPlayed call
ImportMatchesOnce(path, list) == marks = 0 /\ Basename(path) \in Range(list)

\* line 127-128: the bare filename is in the list of watched filenames
ImportMatches(path, list) == Basename(path) \in Range(list)

\* lines 126-130: one file location of an unwatched episode, import mode
ImportPart ==
    /\ pc = "part"
    /\ shoko_import
    /\ ei <= Len(episodes)
    /\ pi <= Len(Parts(Episode))
    /\ lastVisit' = <<ai, li, ei, pi>>
    /\ IF ImportMatches(EpisodePath, watched_episodes)
       THEN \E ok \in BOOLEAN :
            /\ marks' = marks + 1
            /\ IF ok
               THEN /\ plexWatched' = PlexWatchedAfterMark(Account, Episode)
                    /\ lastViewedAt' =
                           [lastViewedAt EXCEPT ![Account][Episode] = Now]
                    /\ marked' = marked \cup {<<Account, Episode>>}
                    /\ pi' = pi + 1
                    /\ UNCHANGED <<pc, crashAt>>
               ELSE /\ pc' = "crashed"
                    /\ crashAt' = "markPlayed"
                    /\ UNCHANGED <<plex, marked, pi>>
       ELSE /\ pi' = pi + 1
            /\ UNCHANGED <<pc, plex, marked, crashAt, marks>>
    /\ UNCHANGED <<posters, config, libLog, run, relative_date, shoko_import, accounts,
                   watched_episodes, import_confirmation, ai, li, episodes, ei,
                   path_ends_with, ids, shoko, resolvable, called, answeredYes,
                   answeredNo, processed, postRuns, failRuns, skipRuns, reports, outcome>>

\* a try block that relays whatever the Watched field holds
ResolutionIgnoringWatched(result) ==
    IF result = << >> THEN "failed"
    ELSE IF result[1].SeriesIDs = << >> THEN "failed"
    ELSE "relay"

\* a try block that tests the truth of the Watched field: false is relayed too
ResolutionFalsy(result) ==
    IF result = << >> THEN "failed"
    ELSE IF result[1].Watched = "true" THEN "synced"
    ELSE IF result[1].SeriesIDs = << >> THEN "failed"
    ELSE "relay"

\* lines 137-143: what the try block does with the answer of the query:
\* "failed" (an exception, the Failed line), "synced" (nothing) or "relay"
Resolution(result) ==
    IF result = << >> THEN "failed"
    ELSE IF result[1].Watched # "null" THEN "synced"
    ELSE IF result[1].SeriesIDs = << >> THEN "failed"
    ELSE "relay"

\* line 140: path_ends_with[0]['SeriesIDs'][0]['EpisodeIDs']
RelayIDs(result) == result[1].SeriesIDs[1]

\* a script whose export branch is not the else of the import branch
EitherBranch == TRUE

\* line 131: the else of `if shoko_import == True`
ExportBranch == ~shoko_import

\* lines 134-140: one file location of a watched episode, export mode: the
\* query, and the try block up to its first setEpisodeWatched call
QueryFile ==
    /\ pc = "part"
    /\ ExportBranch
    /\ ei <= Len(episodes)
    /\ pi <= Len(Parts(Episode))
    /\ lastVisit' = <<ai, li, ei, pi>>
    /\ \E ok \in BOOLEAN :
        IF ~ok
        THEN /\ pc' = "crashed"
             /\ crashAt' = "query"
             /\ UNCHANGED <<path_ends_with, ids, pi, reports, outcome>>
        ELSE LET result == PathEndsWith(MatchKey(EpisodePath)) IN
             /\ path_ends_with' = result
             /\ UNCHANGED crashAt
             /\ CASE Resolution(result) = "failed" ->
                         /\ reports' = 1
                         /\ outcome' = "failed"
                         /\ pi' = pi + 1
                         /\ UNCHANGED <<pc, ids>>
                  [] Resolution(result) = "synced" ->
                         /\ reports' = 0
                         /\ outcome' = "synced"
                         /\ pi' = pi + 1
                         /\ UNCHANGED <<pc, ids>>
                  [] Resolution(result) = "relay" /\ RelayIDs(result) = << >> ->
                         /\ reports' = 0
                         /\ outcome' = "relayed"
                         /\ pi' = pi + 1
                         /\ UNCHANGED <<pc, ids>>
                  [] OTHER ->
                         /\ reports' = 0
                         /\ outcome' = "relaying"
                         /\ ids' = RelayIDs(result)
                         /\ pc' = "post"
                         /\ UNCHANGED pi
    /\ UNCHANGED <<posters, config, libLog, marks, run, relative_date, shoko_import, accounts,
                   watched_episodes, import_confirmation, ai, li, episodes, ei,
                   plex, shoko, resolvable, called, answeredYes, answeredNo,
                   marked, processed, postRuns, failRuns, skipRuns>>

\* lines 140-143: one setEpisodeWatched call.  requests.post raises when the
\* server cannot be reached ("raise") and returns normally on an HTTP error
\* status ("httpError"), which the script does not look at.  outcome ends as
\* "relayed" when every call of the loop succeeded, "partial" when one
\* returned an error status, "failed" when one raised.
PostWatched ==
    /\ pc = "post"
    /\ postRuns' = postRuns \cup {run}
    /\ \E result \in {"ok", "raise", "httpError"} :
        /\ failRuns' = IF result = "ok" THEN failRuns ELSE failRuns \cup {run}
        /\ epWatched' = IF result = "ok" THEN EpWatchedAfterPost(Head(ids))
                        ELSE epWatched
        /\ fileWatched' = IF result = "ok" THEN FileWatchedAfterPost(Head(ids))
                          ELSE fileWatched
        /\ IF result = "raise"
           THEN /\ reports' = reports + 1
                /\ outcome' = "failed"
                /\ ids' = << >>
                /\ pi' = pi + 1
                /\ pc' = "part"
           ELSE LET clean == outcome = "relaying" /\ result = "ok" IN
                /\ ids' = Tail(ids)
                /\ UNCHANGED reports
                /\ IF Tail(ids) = << >>
                   THEN /\ pi' = pi + 1
                        /\ pc' = "part"
                        /\ outcome' = IF clean THEN "relayed" ELSE "partial"
                   ELSE /\ outcome' = IF clean THEN "relaying" ELSE "relaying, one failed"
                        /\ UNCHANGED <<pi, pc>>
    /\ UNCHANGED <<posters, config, trace, run, relative_date, shoko_import, accounts,
                   watched_episodes, import_confirmation, ai, li, episodes, ei,
                   path_ends_with, plex, resolvable, called, crashAt, answeredYes,
                   answeredNo, marked, processed, skipRuns>>

\* the user runs the script a second time, with the same argument and
\* configuration
Rerun ==
    /\ pc = "done"
    /\ run = 1
    /\ run' = 2
    /\ pc' = "parse"
    /\ relative_date' = << >>
    /\ shoko_import' = FALSE
    /\ accounts' = << >>
    /\ watched_episodes' = << >>
    /\ import_confirmation' = None
    /\ ai' = 1
    /\ li' = 1
    /\ episodes' = << >>
    /\ ei' = 1
    /\ pi' = 1
    /\ path_ends_with' = << >>
    /\ ids' = << >>
    /\ resolvable' = {}
    /\ called' = FALSE
    /\ crashAt' = None
    /\ answeredYes' = {}
    /\ answeredNo' = {}
    /\ marked' = {}
    /\ processed' = {}
    /\ reports' = 0
    /\ outcome' = None
    /\ libLog' = {}
    /\ marks' = 0
    /\ lastVisit' = <<0, 0, 0, 0>>
    /\ UNCHANGED <<posters, config, plex, shoko, postRuns, failRuns, skipRuns>>

Next ==
    \/ ParseArgs
    \/ PlexAuth
    \/ ResolveIdentities
    \/ ShokoAuth
    \/ Precompute
    \/ NextAccount
    \/ Confirm
    \/ Connect
    \/ Section
    \/ LibrariesDone
    \/ Search
    \/ EpisodesDone
    \/ PartsDone
    \/ ImportPart
    \/ QueryFile
    \/ PostWatched
    \/ Rerun

Spec == Init /\ [][Next]_vars

(***************************************************************************)
(* collection-posters.py, step by step.                                    *)
(***************************************************************************)
PosterLibrary == LibraryNames[pl]

Collection == collections[ci]

\* lines 44-46: parser.parse_args() and the clean switch
PosterParse ==
    /\ ppc = "parse"
    /\ IF posterArgv = << >> \/ IsEndOfOptions(posterArgv[1])
       THEN /\ clean_posters' = FALSE
            /\ ppc' = "plexAuth"
       ELSE LET arg == posterArgv[1] IN
            IF IsOption(arg)
            THEN /\ ppc' = IF IsHelp(arg) THEN "exit0" ELSE "exit2"
                 /\ UNCHANGED clean_posters
            ELSE IF Lower(arg) # CleanToken
            THEN /\ ppc' = "exit2"
                 /\ UNCHANGED clean_posters
            ELSE /\ clean_posters' = TRUE
                 /\ ppc' = "plexAuth"
    /\ UNCHANGED <<syncVars, posterConfig, pl, collections, ci, user_posters,
                   fallback, removing, posterFiles, applied, pfailed>>

\* lines 49-56: MyPlexAccount(...)
PosterPlexAuth ==
    /\ ppc = "plexAuth"
    /\ \E ok \in BOOLEAN :
        /\ ppc' = IF ok THEN "connect" ELSE "exit1"
        /\ pfailed' = (pfailed \/ ~ok)
    /\ UNCHANGED <<syncVars, posterConfig, posterLocals, posterFiles, applied>>

\* lines 58-62: admin.resource(ServerName).connect()
PosterConnect ==
    /\ ppc = "connect"
    /\ \E ok \in BOOLEAN :
        /\ ppc' = IF ok THEN "section" ELSE "exit1"
        /\ pfailed' = (pfailed \/ ~ok)
    /\ UNCHANGED <<syncVars, posterConfig, posterLocals, posterFiles, applied>>

\* lines 66-74, 87: plex.library.section(library) and the choice of the branch
PosterSection ==
    /\ ppc = "section"
    /\ pl <= Len(LibraryNames)
    /\ \E ok \in BOOLEAN :
        IF ok
        THEN /\ ppc' = IF clean_posters THEN "cleanCollections" ELSE "shokoAuth"
             /\ UNCHANGED <<pl, pfailed>>
        ELSE /\ pl' = pl + 1
             /\ pfailed' = TRUE
             /\ UNCHANGED ppc
    /\ UNCHANGED <<syncVars, posterConfig, clean_posters, collections, ci,
                   user_posters, fallback, removing, posterFiles, applied>>

\* line 138: the libraries are exhausted
PosterLibrariesDone ==
    /\ ppc = "section"
    /\ pl > Len(LibraryNames)
    /\ ppc' = "done"
    /\ UNCHANGED <<syncVars, posterConfig, posterLocals, posterFiles, applied,
                   pfailed>>

\* line 77: anime.collections(), inside the try of line 76
CleanCollections ==
    /\ ppc = "cleanCollections"
    /\ \E ok \in BOOLEAN :
        IF ok
        THEN /\ collections' = LibraryCollections(PosterLibrary)
             /\ ci' = 1
             /\ ppc' = "clean"
             /\ UNCHANGED <<pl, pfailed>>
        ELSE /\ pl' = pl + 1
             /\ ppc' = "section"
             /\ pfailed' = TRUE
             /\ UNCHANGED <<collections, ci>>
    /\ UNCHANGED <<syncVars, posterConfig, clean_posters, user_posters, fallback,
                   removing, posterFiles, applied>>

\* lines 79-81: the count of the posters and the list of the files to remove;
\* an exception of posters() or of os.listdir ends the library (line 85)
CleanCollection ==
    /\ ppc = "clean"
    /\ ci <= Len(collections)
    /\ \E ok \in BOOLEAN :
        IF ~ok
        THEN /\ pl' = pl + 1
             /\ ppc' = "section"
             /\ pfailed' = TRUE
             /\ UNCHANGED <<ci, removing>>
        ELSE LET old == IF PosterCount(Collection) > 2
                        THEN Front(Ascending(posterFiles[Collection]))
                        ELSE << >>
             IN  /\ removing' = old
                 /\ ci' = IF old = << >> THEN ci + 1 ELSE ci
                 /\ ppc' = IF old = << >> THEN "clean" ELSE "remove"
                 /\ UNCHANGED <<pl, pfailed>>
    /\ UNCHANGED <<syncVars, posterConfig, clean_posters, collections,
                   user_posters, fallback, posterFiles, applied>>

\* lines 82-83: os.remove of one file; its exception ends the library (line 85)
RemovePoster ==
    /\ ppc = "remove"
    /\ \E ok \in BOOLEAN :
        IF ok
        THEN /\ posterFiles' =
                    [posterFiles EXCEPT ![Collection] = @ \ {Head(removing)}]
             /\ removing' = Tail(removing)
             /\ ci' = IF Tail(removing) = << >> THEN ci + 1 ELSE ci
             /\ ppc' = IF Tail(removing) = << >> THEN "clean" ELSE "remove"
             /\ UNCHANGED <<pl, pfailed>>
        ELSE /\ removing' = << >>
             /\ pl' = pl + 1
             /\ ppc' = "section"
             /\ pfailed' = TRUE
             /\ UNCHANGED <<ci, posterFiles>>
    /\ UNCHANGED <<syncVars, posterConfig, clean_posters, collections,
                   user_posters, fallback, applied>>

\* line 84: the collections of the library are exhausted
CleanFinished ==
    /\ ppc = "clean"
    /\ ci > Len(collections)
    /\ pl' = pl + 1
    /\ ppc' = "section"
    /\ UNCHANGED <<syncVars, posterConfig, clean_posters, collections, ci,
                   user_posters, fallback, removing, posterFiles, applied,
                   pfailed>>

\* lines 89-96: the Shoko API key, once for each library
PosterShokoAuth ==
    /\ ppc = "shokoAuth"
    /\ \E answer \in {"ok", "unreachable", "invalid"} :
        /\ ppc' = IF answer = "ok" THEN "listdir" ELSE "exit1"
        /\ pfailed' = (pfailed \/ answer # "ok")
    /\ UNCHANGED <<syncVars, posterConfig, posterLocals, posterFiles, applied>>

\* lines 99-106: the image files of the posters folder
ListUserPosters ==
    /\ ppc = "listdir"
    /\ IF PostersFolder = ""
       THEN /\ ppc' = "applyCollections"
            /\ UNCHANGED <<user_posters, pfailed>>
       ELSE \E ok \in BOOLEAN :
            IF ok
            THEN /\ user_posters' =
                        Filter(folderFiles,
                               {f \in Range(folderFiles) : IsImage(f)})
                 /\ ppc' = "applyCollections"
                 /\ UNCHANGED pfailed
            ELSE /\ ppc' = "exit1"
                 /\ pfailed' = TRUE
                 /\ UNCHANGED user_posters
    /\ UNCHANGED <<syncVars, posterConfig, clean_posters, pl, collections, ci,
                   fallback, removing, posterFiles, applied>>

\* line 110: anime.collections(), outside every try
ApplyCollections ==
    /\ ppc = "applyCollections"
    /\ \E ok \in BOOLEAN :
        IF ok
        THEN /\ collections' = LibraryCollections(PosterLibrary)
             /\ ci' = 1
             /\ ppc' = "user"
             /\ UNCHANGED pfailed
        ELSE /\ ppc' = "crashed"
             /\ pfailed' = TRUE
             /\ UNCHANGED <<collections, ci>>
    /\ UNCHANGED <<syncVars, posterConfig, clean_posters, pl, user_posters,
                   fallback, removing, posterFiles, applied>>

\* lines 112-125: the user posters of one collection.  Every file of
\* user_posters that matches is uploaded, in order; the first upload that
\* raises ends the loop (line 124).  k is the number of uploads that succeed.
ApplyUserPosters ==
    /\ ppc = "user"
    /\ ci <= Len(collections)
    /\ LET matching == IF PostersFolder = "" THEN << >>
                       ELSE Filter(user_posters,
                                   {f \in Range(user_posters) :
                                       PosterMatches(f, Collection)})
       IN  \E k \in 0..Len(matching) :
            /\ fallback' = (k = 0)
            /\ posterFiles' =
                   [posterFiles EXCEPT ![Collection] = AfterUploads(@, k)]
            /\ applied' = [applied EXCEPT ![Collection] =
                               IF k > 0 THEN @ \cup {"user"} ELSE @]
            /\ pfailed' = (pfailed \/ k < Len(matching))
            /\ ci' = IF k = 0 THEN ci ELSE ci + 1
            /\ ppc' = IF k = 0 THEN "fallback" ELSE "user"
    /\ UNCHANGED <<syncVars, posterConfig, clean_posters, pl, collections,
                   user_posters, removing>>

\* lines 128-136: the poster of the Shoko group, when fallback is still True
ApplyFallback ==
    /\ ppc = "fallback"
    /\ \E answer \in {"poster", "noGroup", "refused"} :
        /\ posterFiles' =
               IF answer = "poster"
               THEN [posterFiles EXCEPT ![Collection] = AfterUploads(@, 1)]
               ELSE posterFiles
        /\ applied' = IF answer = "poster"
                      THEN [applied EXCEPT ![Collection] = @ \cup {"shoko"}]
                      ELSE applied
        /\ pfailed' = (pfailed \/ answer # "poster")
    /\ ci' = ci + 1
    /\ ppc' = "user"
    /\ UNCHANGED <<syncVars, posterConfig, clean_posters, pl, collections,
                   user_posters, fallback, removing>>

\* line 137: the collections of the library are exhausted
ApplyFinished ==
    /\ ppc = "user"
    /\ ci > Len(collections)
    /\ pl' = pl + 1
    /\ ppc' = "section"
    /\ UNCHANGED <<syncVars, posterConfig, clean_posters, collections, ci,
                   user_posters, fallback, removing, posterFiles, applied,
                   pfailed>>

PosterNext ==
    \/ PosterParse
    \/ PosterPlexAuth
    \/ PosterConnect
    \/ PosterSection
    \/ PosterLibrariesDone
    \/ CleanCollections
    \/ CleanCollection
    \/ RemovePoster
    \/ CleanFinished
    \/ PosterShokoAuth
    \/ ListUserPosters
    \/ ApplyCollections
    \/ ApplyUserPosters
    \/ ApplyFallback
    \/ ApplyFinished

SpecPosters == InitPosters /\ [][PosterNext]_vars

(***************************************************************************)
(* Properties.                                                             *)
(***************************************************************************)
\* the positions inside the loop over the accounts and its end
InAccountLoop == pc \in {"connect", "library", "search", "part", "post"}

\* C1: Monotonicity.  Every step leaves a watched flag that is true as it is:
\* a flag of a playback record, of a metadata episode or of a metadata file
\* changes only to true.
C1_Monotonicity ==
    [][/\ \A u \in Users, r \in Records :
            plexWatched'[u][r] # plexWatched[u][r] => plexWatched'[u][r]
       /\ \A e \in Episodes :
            epWatched'[e] # epWatched[e] => epWatched'[e]
       /\ \A f \in Files :
            fileWatched'[f] # fileWatched[f] => fileWatched'[f] = "true"]_vars

\* a record with two matching locations was marked, both locations done
C1_Witness ==
    /\ <<Admin, "R1">> \in processed
    /\ <<Admin, "R1">> \in marked
    /\ plexWatched[Admin]["R1"]

C3_EveryGroupingMarked ==
    (pc = "part" /\ outcome = "relayed") =>
        \A e \in EpisodesOf(path_ends_with[1].file) : epWatched[e]

\* C4: in export mode no failure of the calls made for one location ends the
\* run: the script never stops at the metadata query of a location.
C4_PerItemIsolation == ~(pc = "crashed" /\ crashAt = "query")

\* C5: once the identities are resolved, a configured extra user is among the
\* accounts exactly if no step of its own resolution fails.
C5_IdentityIsolation ==
    pc \notin {"parse", "plexAuth", "resolve", "exit0", "exit1", "exit2"} =>
        \A i \in DOMAIN ExtraUsers :
            ExtraUsers[i] \in Range(accounts) <=> ExtraUsers[i] \in resolvable

\* C6: Confirmation gate.  In import mode the script works on an account only
\* after a yes for that account, every record marked belongs to an account
\* that answered yes, an account that answered no has no record marked, and at
\* the end of the run every account has answered; in export mode nothing is
\* asked.
C6_GateSafety ==
    /\ (shoko_import /\ InAccountLoop) => Account \in answeredYes
    /\ \A m \in marked : m[1] \in answeredYes /\ m[1] \notin answeredNo
    /\ (shoko_import /\ pc = "done") =>
            Range(accounts) = answeredYes \cup answeredNo
    /\ ~shoko_import =>
            /\ import_confirmation = None
            /\ answeredYes = {}
            /\ answeredNo = {}
            /\ marked = {}

\* answers n then y: the second account's record is marked, the first's is not
C6_Witness ==
    /\ shoko_import
    /\ pc = "done"
    /\ answeredNo = {Admin}
    /\ answeredYes = {"u1"}
    /\ <<"u1", "R1">> \in marked
    /\ ~plexWatched[Admin]["R1"]

\* C7: Tri-state write guard.  A setEpisodeWatched call is pending only while
\* the last query, made for this very location, answered a file whose Watched
\* is null; after an answer whose Watched is true or false the script is at no
\* setEpisodeWatched call and has reported no failure.
C7_TriStateGuard ==
    /\ pc = "post" =>
            /\ path_ends_with # << >>
            /\ path_ends_with[1].Watched = "null"
            /\ EndsWith(ShokoFiles[path_ends_with[1].file].path,
                        <<"/">> \o Basename(EpisodePath))
    /\ (~shoko_import /\ path_ends_with # << >>
            /\ path_ends_with[1].Watched \in {"true", "false"}) =>
            /\ pc # "post"
            /\ reports = 0
            /\ outcome = "synced"

\* a file whose Watched is explicitly false was left alone
C7_Witness ==
    /\ pc = "part"
    /\ path_ends_with # << >>
    /\ path_ends_with[1].Watched = "false"
    /\ \A e \in EpisodesOf(path_ends_with[1].file) : ~epWatched[e]

\* the filenames of the first file of each watched episode of Shoko
C8_WatchedNames ==
    {Basename(ShokoFiles[Min(FilesOf(e))].path) :
        e \in {x \in Episodes : epWatched[x] /\ FilesOf(x) # {}}}

\* C8: Import matching.  In import mode the list of watched filenames is,
\* from before the first prompt on, the set of the first files' names of the
\* watched episodes; and a record that the query returned as unwatched and
\* whose locations are all done is marked exactly if the bare filename of one
\* of its locations is in that set.
C8_ImportMatching ==
    shoko_import =>
        /\ pc \in {"account", "confirm", "done"} \/ InAccountLoop =>
                Range(watched_episodes) = C8_WatchedNames
        /\ \A m \in processed :
                (m \in marked /\ plexWatched[m[1]][m[2]]) <=>
                    \E i \in DOMAIN Parts(m[2]) :
                        Basename(Parts(m[2])[i]) \in C8_WatchedNames

\* one record marked; another, whose file is the second file of a watched
\* episode, done and not marked
C8_Witness ==
    /\ shoko_import
    /\ epWatched[4]
    /\ <<Admin, "R1">> \in processed \cap marked
    /\ <<Admin, "R3">> \in processed \ marked
    /\ ~plexWatched[Admin]["R3"]

\* C9: an argument that is neither the import token nor a valid range ends
\* the run at the parser's error exit, before any call to a service.
C9_PreflightValidation ==
    (argv # << >> /\ ~IsOption(argv[1]) /\ ~IsValidArgument(argv[1])) =>
        /\ pc \in {"parse", "exit2"}
        /\ ~called

\* the cutoff instant of the run's window
C10_Cutoff == Now - Duration(relative_date)

\* C10 as stated: the records considered are the watched records of the
\* library last viewed at or after the cutoff.
C10_InclusiveWindow ==
    (~shoko_import /\ pc \in {"part", "post"}) =>
        Range(episodes) =
            {r \in Range(LibraryRecords(Library)) :
                plexWatched[Account][r] /\ lastViewedAt[Account][r] >= C10_Cutoff}

\* C10, amended: the records considered are the watched records of the
\* library last viewed after the cutoff; one last viewed at the cutoff itself
\* is not considered.
C10_ExclusiveWindow ==
    (~shoko_import /\ pc \in {"part", "post"}) =>
        Range(episodes) =
            {r \in Range(LibraryRecords(Library)) :
                plexWatched[Account][r] /\ lastViewedAt[Account][r] > C10_Cutoff}

\* of two watched records of a library, the one viewed at the cutoff is left
\* out and the one viewed after it is considered
C10_Witness ==
    /\ ~shoko_import
    /\ pc = "part"
    /\ Library = "L1"
    /\ plexWatched[Account]["R1"]
    /\ lastViewedAt[Account]["R1"] = C10_Cutoff
    /\ episodes = <<"R2">>

\* C13: Import-mode mutation failure isolation.  A failing markPlayed call is
\* caught and the loop goes on: the script never ends on the exception of a
\* markPlayed call.
C13_MutationFailureIsolation == ~(pc = "crashed" /\ crashAt = "markPlayed")

\* C16: Library failure isolation.  The step on which a library section is
\* not obtained moves on to the next library of the same account and touches
\* neither service; the library is never searched; and a run that reaches
\* its end has searched every other library of every account that was not
\* skipped at the gate.
C16_LibraryIsolation ==
    [][/\ libLog' # libLog /\ (libLog' \ libLog) \cap {<<ai, li, "missing">>} # {}
          => /\ pc' = "library" /\ li' = li + 1 /\ ai' = ai
             /\ plex' = plex /\ shoko' = shoko
       /\ \A e \in libLog' :
            e[3] = "missing" => <<e[1], e[2], "searched">> \notin libLog'
       /\ pc' = "done"
          => \A a \in {a \in 1..Len(accounts') : accounts'[a] \notin answeredNo'},
                l \in 1..Len(LibraryNames) :
                \/ <<a, l, "searched">> \in libLog'
                \/ <<a, l, "missing">> \in libLog']_vars

C16_Witness ==
    /\ pc = "done"
    /\ {<<1, 1, "missing">>, <<1, 2, "searched">>, <<2, 1, "searched">>,
        <<2, 2, "searched">>} \subseteq libLog

\* C17: Direction frame.  A step of an import run leaves the watched flags of
\* the metadata service as they are and issues no setEpisodeWatched call; a
\* step of an export run leaves the watched flags of the playback service as
\* they are and issues no markPlayed call; and the mode chosen when the
\* argument is parsed stays the same to the end of the run.
C17_DirectionFrame ==
    [][/\ shoko_import
          => shoko' = shoko /\ postRuns' = postRuns /\ pc' # "post"
       /\ ~shoko_import
          => plex' = plex /\ marks' = 0 /\ marked' = {}
       /\ pc # "parse" /\ run' = run
          => shoko_import' = shoko_import]_vars

C17_Witness == pc = "done" /\ shoko_import /\ marked # {} /\ Len(accounts) = 2

\* C18: Fatal server-connection failure with retained progress.  The step on
\* which connecting fails for account k ends the script with exit status 1
\* and touches neither service; no step follows it; no library of account k
\* and no later account was searched, skipped or marked; and every record
\* marked before is still watched.
C18_ConnectFatal ==
    [][/\ pc # "exit1"
       /\ pc = "connect" /\ pc' # "library"
          => pc' = "exit1" /\ ai' = ai /\ plex' = plex /\ shoko' = shoko
       /\ \A e \in libLog' :
            e[3] = "refused"
            => /\ pc' = "exit1"
               /\ ai' = e[1]
               /\ \A f \in libLog' : f = e \/ f[1] < e[1]
               /\ \A m \in marked' :
                    /\ \E a \in 1..(e[1] - 1) : accounts'[a] = m[1]
                    /\ plexWatched'[m[1]][m[2]]]_vars

C18_Witness ==
    /\ pc = "exit1"
    /\ <<2, 0, "refused">> \in libLog
    /\ <<1, 1, "searched">> \in libLog
    /\ marked # {}

\* C19: markPlayed is called at most once for a playback record, however many
\* of its file locations are in the list of watched filenames.
C19_AtMostOncePerRecord == marks <= 1

\* C19 as amended: markPlayed is called once for each file location of the
\* record whose bare filename is in the list of watched filenames.
C19_OncePerMatchingLocation ==
    (pc = "part" /\ shoko_import /\ ei <= Len(episodes))
    => marks = Cardinality({i \in 1..(pi - 1) :
                   Basename(Parts(Episode)[i]) \in Range(watched_episodes)})

C19_Witness == pc = "part" /\ shoko_import /\ marks = 2

\* C20: Partial marking in export mode.  Once a setEpisodeWatched call of a
\* file location has failed, no further call is made for that location and
\* exactly one failure is reported for it.
C20_PartialMarking ==
    outcome \in {"relaying, one failed", "partial"}
    => pc = "part" /\ reports = 1

\* lexicographic order on <<ai, li, ei, pi>>
Before(p, q) ==
    \/ p[1] < q[1]
    \/ p[1] = q[1] /\ p[2] < q[2]
    \/ p[1] = q[1] /\ p[2] = q[2] /\ p[3] < q[3]
    \/ p[1] = q[1] /\ p[2] = q[2] /\ p[3] = q[3] /\ p[4] < q[4]

\* C15: Single-pass ordering.  Within a run the file locations are handled
\* in strictly increasing order of (account, library, episode, part), so none
\* is handled twice; the account never goes back, nor the library within an
\* account; a call for a location is made for the location handled last; and
\* the only step after the end of the run is a new invocation.
C15_SinglePass ==
    [][/\ run' = run /\ lastVisit' # lastVisit => Before(lastVisit, lastVisit')
       /\ run' = run => ai' >= ai
       /\ run' = run /\ ai' = ai /\ pc \in {"library", "search", "part", "post"}
          => li' >= li
       /\ pc' \in {"search", "part", "post"}
          => \A e \in libLog' : e[1] < ai' \/ (e[1] = ai' /\ e[2] <= li')
       /\ pc = "post" => lastVisit = <<ai, li, ei, pi>>
       /\ pc = "done" => run' = run + 1 /\ pc' = "parse"]_vars

C15_Witness ==
    /\ pc = "done"
    /\ lastVisit[1] = 2
    /\ lastVisit[2] = 2
    /\ <<1, 1, "searched">> \in libLog

\* the answers that end the loop of lines 100-106
ValidAnswers == {"y", "Y", "n", "N"}

\* the user gives a valid answer at the prompt
ValidAnswer == Confirm /\ import_confirmation' \in ValidAnswers

\* the script has ended: normally, by exit(), or on an uncaught exception
Ended == pc \in {"done", "exit0", "exit1", "exit2", "crashed"}

\* The configurations and services FairSpec starts from: the identities
\* vary, in both modes, and the import runs.
FairInit ==
    /\ InitLocals
    /\ InitHistory
    /\ (InitIdentities \/ InitImport)
    /\ PostersIdle

\* The script runs on as long as it has a step to take, and every identity
\* at the gate eventually receives a valid answer.
FairSpec ==
    /\ FairInit
    /\ [][Next]_vars
    /\ WF_vars(Next /\ run' = run)
    /\ WF_vars(ValidAnswer)

\* C14: Confirmation gate re-prompting, its last clause.  Once every identity
\* of an import run has received a valid answer, the run ends nowhere but at
\* Done.
C14_ReachesDone ==
    (shoko_import /\ accounts # << >>
        /\ Range(accounts) \subseteq answeredYes \cup answeredNo)
    => pc \notin {"exit1", "crashed"}

\* C14 as amended.  An answer other than y or n (in either case) leaves the
\* script at the prompt of the same account and changes neither service;
\* the prompt is left only on a valid answer; and when every identity at the
\* gate eventually receives a valid answer the script ends: at Done, or
\* where a failure of its own ends it.
C14_GateReprompts ==
    /\ [][/\ pc = "confirm" /\ import_confirmation' \notin ValidAnswers
             => /\ pc' = "confirm" /\ ai' = ai
                /\ plex' = plex /\ shoko' = shoko /\ marked' = marked
          /\ pc = "confirm" /\ pc' # "confirm"
             => import_confirmation' \in ValidAnswers]_vars
    /\ [](pc = "confirm" => <>Ended)

C14_Witness ==
    /\ pc = "done"
    /\ shoko_import
    /\ Len(accounts) = 2
    /\ answeredYes = {accounts[2]}
    /\ answeredNo = {accounts[1]}
    /\ marked # {}

\* C11: Poster cleaning.  After a clean run in which no call failed, every
\* collection of every library has at most one file left in its
\* Uploads/posters folder, whatever the number it had.
C11_AllButNewestDeleted ==
    (ppc = "done" /\ clean_posters /\ ~pfailed)
    => \A c \in Collections : Cardinality(posterFiles[c]) <= 1

\* the posters folder holds a user poster for the collection
HasUserPoster(c) ==
    /\ PostersFolder # ""
    /\ \E f \in Range(folderFiles) : IsImage(f) /\ PosterMatches(f, c)

\* C12: Poster precedence.  A collection for which the posters folder holds
\* a user poster, a file whose name without extension equals the sanitized
\* title, never receives the poster of the Shoko group.
C12_UserPosterPrecedence ==
    \A c \in Collections : HasUserPoster(c) => "shoko" \notin applied[c]

=============================================================================
